---- MODULE Spec2Model ----
(***************************************************************************)
(* Model of the dataflow pipeline builder: the brick catalog               *)
(* (brick-config.ts), the CreatePipelineForm state machine in its three    *)
(* brick-based variants, the server actions (actions.ts) and the flows     *)
(* behind them (validate-configuration, execute-pipeline,                  *)
(* create-nifi-pipeline).                                                  *)
(*                                                                         *)
(* The verdict of the validation prompt and the answer of the NiFi API are *)
(* produced outside the repository; the code passes them through, so they  *)
(* are inputs of the model, drawn from the values their schemas admit.     *)
(***************************************************************************)
EXTENDS Integers, Sequences, FiniteSets, TLC

\* ------------------------------------------------------------------------
\* Bounds of the model
\* ------------------------------------------------------------------------
MaxBricks == 3   \* longest processors list the form is grown to
MaxUnits == 2    \* most processors in a translated flow
MaxServices == 2 \* most controller services in a translated flow
MaxEdits == 3    \* number of changes the user makes to the form values in one behaviour
MaxHandlers == 2 \* most invocations of handleValidate running at a time

\* null / undefined, where a record or a list is expected
NULL == [null |-> TRUE]

\* ------------------------------------------------------------------------
\* Builds: the variants of the form and the catalog version each one imports
\* ------------------------------------------------------------------------
\* "run"    : part_001 (Run Pipeline, runPipelineAction), catalog v2
\* "deploy" : create-pipeline-form.tsx 1-419 (Deploy Pipeline, structured), catalog v1
\* "text"   : create-pipeline-form.tsx 421-781 (Deploy Pipeline, free text)
Builds == {"run", "deploy", "text"}

Catalogs == {"v1", "v2"}

CatalogOf(b) == IF b = "run" THEN "v2" ELSE "v1"

\* ------------------------------------------------------------------------
\* Strings: the literals the model uses, with the length z.string().min reads
\* ------------------------------------------------------------------------
StrLen(s) ==
  CASE s = "" -> 0
    [] s = "x" -> 1
    [] s = "ab" -> 2
    [] s = "8080" -> 4
    [] s = "/data" -> 5
    [] s = "/var/data/input" -> 15
    [] s = "SELECT * FROM orders" -> 20
    [] s = "5 minutes" -> 9
    [] s = "Use first line as header" -> 24
    [] s = "csv-reader-service" -> 18
    [] s = "json-writer-service" -> 19
    [] s = "Sheet1" -> 6
    [] s = "$.customers[*]" -> 14
    [] s = "1000" -> 4
    [] s = "root" -> 4
    [] s = "Orders" -> 6
    [] s = "orders" -> 6
    [] s = "My New ES Pipeline" -> 18
    [] s = "my-data-index" -> 13
    [] s = "http://localhost:9200" -> 21
    [] s = "Listen on port 8080 and path /data" -> 34
    [] s = "not json" -> 8
    [] OTHER -> 1

\* z.string().url(): of the literals above only the Elasticsearch address parses
IsUrl(s) == s = "http://localhost:9200"

\* ------------------------------------------------------------------------
\* Brick catalog (brickConfig)
\* ------------------------------------------------------------------------
sourceBrickTypes == <<"HTTP", "File", "Database">>

transformationBrickTypes ==
  <<"CSV to JSON", "XML to JSON", "Excel to CSV", "Split JSON",
    "Add/Modify Fields", "Merge Records">>

brickTypes == sourceBrickTypes \o transformationBrickTypes

Range(s) == {s[i] : i \in 1..Len(s)}

SourceTypes == Range(sourceBrickTypes)
TransformationTypes == Range(transformationBrickTypes)

\* the keys of the brickConfig object literal
BrickKeys ==
  {"HTTP", "File", "Database", "CSV to JSON", "XML to JSON", "Excel to CSV",
   "Split JSON", "Add/Modify Fields", "Merge Records"}

\* brickConfig is an object literal: indexing it with a name it does not
\* define reaches the members every object inherits
InheritedKeys == {"constructor", "toString"}

\* getBrickConfig: undefined for a falsy name, otherwise brickConfig[type]:
\* the descriptor registered under the name, an inherited member, or undefined
getBrickConfig(type) ==
  IF type = "" THEN NULL
  ELSE IF type \in BrickKeys THEN [key |-> type]
  ELSE IF type \in InheritedKeys THEN [inherited |-> type]
  ELSE NULL

\* config.fields: the field names of a brick type
BrickFields(cat, type) ==
  CASE type = "HTTP" -> {"port", "path"}
    [] type = "File" -> {"path"}
    [] type = "Database" -> {"query", "interval"}
    [] type = "CSV to JSON" ->
         IF cat = "v2" THEN {"reader-service-id", "writer-service-id"} ELSE {"options"}
    [] type = "XML to JSON" -> IF cat = "v2" THEN {"xslt"} ELSE {"options"}
    [] type = "Excel to CSV" -> IF cat = "v2" THEN {"script"} ELSE {"sheetName"}
    [] type = "Split JSON" -> {"jsonPath"}
    [] type = "Add/Modify Fields" -> {"joltSpec"}
    [] type = "Merge Records" -> {"batchSize"}
    [] OTHER -> {}

\* no field is required
BrickFieldMinNone(cat, type, f) == 0

\* config.schema: the least length z.string().min(n) asks of a field; 0 for
\* z.string().optional()
BrickFieldMin(cat, type, f) ==
  CASE type = "CSV to JSON" /\ cat = "v1" -> 0
    [] type = "XML to JSON" -> 0
    [] OTHER -> 1

\* config.defaultValue
defaultProperties(cat, type) ==
  CASE type = "HTTP" -> [port |-> "8080", path |-> "/data"]
    [] type = "File" -> [path |-> "/var/data/input"]
    [] type = "Database" -> [query |-> "SELECT * FROM orders", interval |-> "5 minutes"]
    [] type = "CSV to JSON" ->
         IF cat = "v2"
           THEN ("reader-service-id" :> "csv-reader-service")
                @@ ("writer-service-id" :> "json-writer-service")
           ELSE [options |-> "Use first line as header"]
    [] type = "XML to JSON" -> IF cat = "v2" THEN [xslt |-> ""] ELSE [options |-> ""]
    [] type = "Excel to CSV" ->
         IF cat = "v2" THEN [script |-> ""] ELSE [sheetName |-> "Sheet1"]
    [] type = "Split JSON" -> [jsonPath |-> "$.customers[*]"]
    [] type = "Add/Modify Fields" -> [joltSpec |-> ""]
    [] type = "Merge Records" -> [batchSize |-> "1000"]

defaultValue(cat, type) == [type |-> type, properties |-> defaultProperties(cat, type)]

\* ------------------------------------------------------------------------
\* State
\* ------------------------------------------------------------------------
VARIABLES
  build,             \* which variant of the form is mounted
  page,              \* "form" while CreatePipelineForm is mounted, "home" after router.push('/')
  name,              \* form value name
  nifiProcessGroup,  \* form value nifiProcessGroup (deploy and text builds)
  processors,        \* form value processors (useFieldArray)
  sink,              \* form value sink
  formErrors,        \* formState.errors as left by the last resolver run
  validationResult,  \* useState validationResult: NULL or [isValid, feedback]
  isValidating,      \* useState isValidating
  isRunning,         \* useState isRunning / isDeploying
  validateReq,       \* the validateConfigurationAction call in flight, or NULL
  runReq,            \* the runPipelineAction / createPipelineAction call in flight, or NULL
  toast,             \* title of the last toast shown, "none" before the first
  nEdits,            \* typed edits made so far
  apiIn,             \* input of a direct call of a server function
  apiOut,            \* what that call returned, or NULL before the call
  brickConfig,       \* the defaultValue object of each registered type, as it is now
  objects,           \* per position: the object the field array holds there
  server,            \* the server actions being executed for several callers at once
  handlers           \* the invocations of handleValidate that have not finished

formVars == <<name, nifiProcessGroup, processors, sink>>

uiVars ==
  <<page, formErrors, validationResult, isValidating, isRunning, validateReq,
    runReq, toast, nEdits>>

apiVars == <<apiIn, apiOut>>

heapVars == <<brickConfig, objects>>

concVars == <<server, handlers>>

vars == <<build, formVars, uiVars, apiVars, heapVars, concVars>>

\* ------------------------------------------------------------------------
\* JSON text: JSON.stringify builds it, JSON.parse reads it back or throws
\* ------------------------------------------------------------------------
JsonStringify(v) == [text |-> "json", value |-> v]

NotJson == [text |-> "not json", value |-> NULL]

JsonParses(s) == s.text = "json"

JsonParse(s) == s.value

\* ------------------------------------------------------------------------
\* Form schemas (zod)
\* ------------------------------------------------------------------------
Structured(b) == b \in {"run", "deploy"}

\* the fields of a brick whose value fails the brick type's own schema
BrickFieldErrors(cat, brick) ==
  {f \in BrickFields(cat, brick.type) :
     BrickFieldMin(cat, brick.type, f) > 0
     /\ (f \notin DOMAIN brick.properties
         \/ StrLen(brick.properties[f]) < BrickFieldMin(cat, brick.type, f))}

\* processorUnionSchema: some option of the union has the brick's type as its
\* literal and accepts the properties; the position in the list is not read
processorUnionSchema(cat, brick) ==
  \E key \in BrickKeys : brick.type = key /\ BrickFieldErrors(cat, brick) = {}

\* processorSchema of the free-text form
processorTextSchema(brick) == StrLen(brick.type) >= 1

processorSchema(b, brick) ==
  IF Structured(b) THEN processorUnionSchema(CatalogOf(b), brick)
  ELSE processorTextSchema(brick)

SinkFieldErrors(s) ==
  {f \in {"elasticsearchUrl", "index"} :
     \/ f = "elasticsearchUrl" /\ ~IsUrl(s.properties.elasticsearchUrl)
     \/ f = "index" /\ StrLen(s.properties.index) < 1}

sinkSchema(s) == s.type = "Elasticsearch" /\ SinkFieldErrors(s) = {}

Err(at, index, field) == [at |-> at, index |-> index, field |-> field]

\* what the resolver reports for the form values: the paths that fail formSchema
\* (index counts from 0 as in the field names; -1 where there is none)
FormErrors(b, n, g, ps, s) ==
  (IF StrLen(n) < 3 THEN {Err("name", -1, "name")} ELSE {})
  \cup (IF b # "run" /\ StrLen(g) < 1
          THEN {Err("nifiProcessGroup", -1, "nifiProcessGroup")} ELSE {})
  \cup (IF Len(ps) < 1 THEN {Err("processors", -1, "processors")} ELSE {})
  \cup (IF Structured(b)
          THEN UNION {{Err("processors", i - 1, f) :
                          f \in BrickFieldErrors(CatalogOf(b), ps[i])} :
                      i \in 1..Len(ps)}
               \cup {Err("processors", i - 1, "type") :
                       i \in {j \in 1..Len(ps) : ps[j].type \notin BrickKeys}}
          ELSE {Err("processors", i - 1, "type") :
                  i \in {j \in 1..Len(ps) : ~processorTextSchema(ps[j])}})
  \cup (IF s.type # "Elasticsearch" THEN {Err("sink", -1, "type")} ELSE {})
  \cup {Err("sink", -1, f) : f \in SinkFieldErrors(s)}

formSchema(b, n, g, ps, s) ==
  /\ StrLen(n) >= 3
  /\ b # "run" => StrLen(g) >= 1
  /\ Len(ps) >= 1
  /\ \A i \in 1..Len(ps) : processorSchema(b, ps[i])
  /\ sinkSchema(s)

\* ------------------------------------------------------------------------
\* Initial form (useForm defaultValues, useState)
\* ------------------------------------------------------------------------
TextBrick(type, text) == [type |-> type, properties |-> [text |-> text]]

InitialProcessors(b) ==
  IF Structured(b) THEN <<defaultValue(CatalogOf(b), "HTTP")>>
  ELSE <<TextBrick("HTTP", "Listen on port 8080 and path /data")>>

\* an object that only the form holds
OwnObject == "own"

\* the field array keeps the object it is handed
cloneObjectShared(object) == object

\* useForm and useFieldArray keep a copy of the value they are handed: the
\* copy is an object that nothing else holds
cloneObject(object) == OwnObject

\* the object kept for a brick of the type: a copy of the catalog's
\* defaultValue object in the structured forms, of an inline literal in the
\* free-text form
StoredObject(b, type) == IF Structured(b) THEN cloneObject(type) ELSE cloneObject(OwnObject)

InitialObjects(b) == <<StoredObject(b, "HTTP")>>

\* the brickConfig literal: each type's defaultValue
InitialBrickConfig(b) == [type \in BrickKeys |-> defaultValue(CatalogOf(b), type)]

InitialName(b) == IF b = "run" THEN "My New ES Pipeline" ELSE ""

InitialSink ==
  [type |-> "Elasticsearch",
   properties |-> [elasticsearchUrl |-> "http://localhost:9200",
                   index |-> "my-data-index", user |-> "", password |-> ""]]

ApiIdle == [op |-> "none"]

InitForm ==
  /\ build \in Builds
  /\ page = "form"
  /\ name = InitialName(build)
  /\ nifiProcessGroup = "root"
  /\ processors = InitialProcessors(build)
  /\ objects = InitialObjects(build)
  /\ brickConfig = InitialBrickConfig(build)
  /\ sink = InitialSink
  /\ formErrors = {}
  /\ validationResult = NULL
  /\ isValidating = FALSE
  /\ isRunning = FALSE
  /\ validateReq = NULL
  /\ runReq = NULL
  /\ toast = "none"
  /\ nEdits = 0

\* a call that has not been made
NotCalled == [called |-> FALSE]

ApiNone ==
  [form |-> NotCalled, validation |-> NotCalled, result |-> NotCalled, plan |-> NotCalled,
   validationAgain |-> NotCalled, planAgain |-> NotCalled]

\* no server action is being executed and no handler is running
ServerIdle == [calls |-> <<>>, message |-> <<>>]

ConcIdle == server = ServerIdle /\ handlers = <<>>

Init == InitForm /\ apiIn = ApiIdle /\ apiOut = ApiNone /\ ConcIdle

\* ------------------------------------------------------------------------
\* Requests the form builds
\* ------------------------------------------------------------------------
\* the processors the form puts into flowDefinition: the run form sends the whole
\* list, the deploy forms send processors.slice(1)
FlowProcessors(b, ps) == IF b = "run" THEN ps ELSE Tail(ps)

\* handleValidate: the argument of validateConfigurationAction
ValidateRequest(b, ps, s) ==
  [flowDefinition |-> JsonStringify([processors |-> FlowProcessors(b, ps)]),
   sourceType |-> ps[1].type,
   sink |-> s]

\* onSubmit: pipelinePayload
RunRequest(b, n, g, ps, s) ==
  [name |-> n,
   nifiProcessGroup |-> IF b = "run" THEN NULL ELSE [id |-> g],
   sourceType |-> ps[1].type,
   flowDefinition |-> JsonStringify([processors |-> FlowProcessors(b, ps)]),
   sink |-> s]

\* ------------------------------------------------------------------------
\* Server: validation
\* ------------------------------------------------------------------------
\* what the validation prompt can hand back: an output of its schema, no
\* output, or an exception
AiOutputs ==
  {[kind |-> "output", isValid |-> TRUE], [kind |-> "output", isValid |-> FALSE],
   [kind |-> "none", isValid |-> FALSE], [kind |-> "throw", isValid |-> FALSE]}

\* ValidateActionInputSchema.safeParse(input).success
ValidateActionInputSchema(input) ==
  /\ {"flowDefinition", "sourceType", "sink"} \subseteq DOMAIN input
  /\ input.flowDefinition # NULL /\ input.sink # NULL

\* validateConfigurationFlow (validatePipelineLogicPrompt); not reached when
\* the prompt throws
validateConfigurationFlow(input, ai) ==
  IF ai.kind = "none"
    THEN [isValid |-> FALSE, feedback |-> "The AI validator failed to return a result."]
    ELSE [isValid |-> ai.isValid, feedback |-> "ai"]

\* the action without its try/catch: an exception of the flow leaves no result
validateConfigurationActionUncaught(input, ai) ==
  IF ~ValidateActionInputSchema(input)
    THEN [isValid |-> FALSE, feedback |-> "Invalid input provided for validation."]
  ELSE IF ai.kind = "throw" THEN NULL
  ELSE validateConfigurationFlow(input, ai)

validateConfigurationAction(input, ai) ==
  IF ~ValidateActionInputSchema(input)
    THEN [isValid |-> FALSE, feedback |-> "Invalid input provided for validation."]
  ELSE IF ai.kind = "throw"
    THEN [isValid |-> FALSE, feedback |-> "An unexpected error occurred while validating."]
  ELSE validateConfigurationFlow(input, ai)

\* ------------------------------------------------------------------------
\* Server: run
\* ------------------------------------------------------------------------
\* flow.processors?.length || 0
NumSteps(flow) == IF "processors" \in DOMAIN flow THEN Len(flow.processors) ELSE 0

Step(n, does, what) == [n |-> n, does |-> does, what |-> what]

\* the loop walks the processors from the last to the first
TransformationStepsReversed(flow) ==
  [i \in 1..NumSteps(flow) |->
     Step(i + 1, "Applying transformation", flow.processors[NumSteps(flow) + 1 - i].type)]

\* the loop of executePipelineFlow: one line per element of flow.processors
TransformationSteps(flow) ==
  [i \in 1..NumSteps(flow) |->
     Step(i + 1, "Applying transformation", flow.processors[i].type)]

\* the step lines of the message executePipelineFlow builds
StepLines(input, flow) ==
  <<Step(1, "Ingesting data from source type", input.sourceType)>>
  \o TransformationSteps(flow)
  \o <<Step(NumSteps(flow) + 2, "Writing data to", input.sink.type)>>

Failed(message) == [success |-> FALSE, message |-> message, steps |-> <<>>, total |-> 0]

\* executePipelineFlow: JSON.parse throws on text that is not JSON, and reading
\* flow.processors throws when the text parses to null; both end in the catch
executePipelineFlow(input) ==
  IF ~JsonParses(input.flowDefinition) \/ JsonParse(input.flowDefinition) = NULL
    THEN Failed("An error occurred during the simulated pipeline execution")
    ELSE LET flow == JsonParse(input.flowDefinition)
         IN  [success |-> TRUE, message |-> "Successfully simulated execution",
              steps |-> StepLines(input, flow), total |-> NumSteps(flow) + 2]

\* RunPipelineActionInputSchema.safeParse(input).success
RunPipelineActionInputSchema(input) ==
  /\ {"name", "flowDefinition", "sourceType", "sink"} \subseteq DOMAIN input
  /\ input.flowDefinition # NULL /\ input.sink # NULL

runPipelineAction(input) ==
  IF ~RunPipelineActionInputSchema(input)
    THEN Failed("Invalid input provided for pipeline execution.")
    ELSE executePipelineFlow(input)

\* ------------------------------------------------------------------------
\* Server: deploy
\* ------------------------------------------------------------------------
\* the environment of createNifiPipelineFlow: NIFI_API_URL unset, or set and the
\* NiFi API answering ok, answering with an error status, or not answering
NifiOutcomes == {"unconfigured", "ok", "http-error", "network-error"}

createNifiPipelineFlow(input, nifi) ==
  CASE nifi = "unconfigured" -> Failed("NIFI_API_URL is not configured in the environment.")
    [] nifi = "ok" ->
         [success |-> TRUE, message |-> "Successfully created placeholder NiFi process group",
          steps |-> <<>>, total |-> 0]
    [] nifi = "http-error" -> Failed("Failed to create NiFi process group.")
    [] OTHER -> Failed("An error occurred while communicating with NiFi")

\* CreatePipelineActionInputSchema.safeParse(input).success
CreatePipelineActionInputSchema(input) ==
  /\ {"name", "nifiProcessGroup", "flowDefinition", "sourceType", "sink"} \subseteq DOMAIN input
  /\ input.flowDefinition # NULL /\ input.sink # NULL /\ input.nifiProcessGroup # NULL

createPipelineAction(input, nifi) ==
  IF ~CreatePipelineActionInputSchema(input)
    THEN Failed("Invalid input provided for pipeline creation.")
    ELSE createNifiPipelineFlow(input, nifi)

\* ------------------------------------------------------------------------
\* Form operations
\* ------------------------------------------------------------------------
\* what the user types into a text input
EditValues == {"", "x"}
NameValues == {"ab", "Orders"}
SinkValues == {"", "orders"}

\* the field names of the catalogs
FieldNames == UNION {BrickFields(cat, type) : cat \in Catalogs, type \in BrickKeys}

Mounted == page = "form"

\* the Name input
EditName(v) ==
  /\ Mounted /\ nEdits < MaxEdits
  /\ name' = v
  /\ nEdits' = nEdits + 1
  /\ UNCHANGED <<heapVars, concVars, build, nifiProcessGroup, processors, sink, page, formErrors,
                 validationResult, isValidating, isRunning, validateReq, runReq,
                 toast, apiVars>>

\* the NiFi Process Group ID input of the deploy forms
EditGroup(v) ==
  /\ Mounted /\ nEdits < MaxEdits /\ build # "run"
  /\ nifiProcessGroup' = v
  /\ nEdits' = nEdits + 1
  /\ UNCHANGED <<heapVars, concVars, build, name, processors, sink, page, formErrors, validationResult,
                 isValidating, isRunning, validateReq, runReq, toast, apiVars>>

\* the positions of the field array that hold the object position i holds
SameObject(objs, i) ==
  {j \in 1..Len(objs) : j = i \/ (objs[i] # OwnObject /\ objs[j] = objs[i])}

\* a field of the Configure dialog (renderBrickFields): the inputs are those of
\* the brick's current type; the result on record is left as it is
EditField(i, f, v) ==
  /\ Mounted /\ nEdits < MaxEdits /\ Structured(build)
  /\ i \in 1..Len(processors)
  /\ getBrickConfig(processors[i].type) # NULL
  /\ f \in BrickFields(CatalogOf(build), processors[i].type)
  /\ processors' = [j \in 1..Len(processors) |->
                      IF j \in SameObject(objects, i)
                        THEN [processors[j] EXCEPT !.properties[f] = v]
                        ELSE processors[j]]
  /\ brickConfig' = IF objects[i] = OwnObject THEN brickConfig
                    ELSE [brickConfig EXCEPT ![objects[i]].properties[f] = v]
  /\ nEdits' = nEdits + 1
  /\ UNCHANGED <<objects, concVars, build, name, nifiProcessGroup, sink, page, formErrors,
                 validationResult, isValidating, isRunning, validateReq, runReq,
                 toast, apiVars>>

\* the Instructions textarea of the free-text form: onChange also clears the result
EditInstructions(i, v) ==
  /\ Mounted /\ nEdits < MaxEdits /\ build = "text"
  /\ i \in 1..Len(processors)
  /\ processors' = [processors EXCEPT ![i].properties.text = v]
  /\ validationResult' = NULL
  /\ nEdits' = nEdits + 1
  /\ UNCHANGED <<heapVars, concVars, build, name, nifiProcessGroup, sink, page, formErrors, isValidating,
                 isRunning, validateReq, runReq, toast, apiVars>>

\* the Elasticsearch URL and Index inputs
EditSink(f, v) ==
  /\ Mounted /\ nEdits < MaxEdits
  /\ f \in {"elasticsearchUrl", "index"}
  /\ sink' = [sink EXCEPT !.properties[f] = v]
  /\ nEdits' = nEdits + 1
  /\ UNCHANGED <<heapVars, concVars, build, name, nifiProcessGroup, processors, page, formErrors,
                 validationResult, isValidating, isRunning, validateReq, runReq,
                 toast, apiVars>>

\* the types the Brick Type select of position i offers (index === 0 ? source :
\* transformation)
SelectItems(i) == IF i = 1 THEN SourceTypes ELSE TransformationTypes

\* the brick the select's onValueChange puts at the position
FreeTextBrick(old, type) == [old EXCEPT !.type = type]

ChangedBrick(b, old, type) ==
  IF Structured(b) THEN brickConfig[type] ELSE FreeTextBrick(old, type)

\* Select onValueChange: fires for an item other than the one shown
ChangeType(i, type) ==
  /\ Mounted /\ nEdits < MaxEdits
  /\ i \in 1..Len(processors)
  /\ type \in SelectItems(i)
  /\ type # processors[i].type
  /\ processors' = [processors EXCEPT ![i] = ChangedBrick(build, processors[i], type)]
  /\ objects' = [objects EXCEPT ![i] = IF Structured(build) THEN cloneObject(type) ELSE @]
  /\ validationResult' = NULL
  /\ nEdits' = nEdits + 1
  /\ UNCHANGED <<brickConfig, concVars, build, name, nifiProcessGroup, sink, page, formErrors, isValidating,
                 isRunning, validateReq, runReq, toast, apiVars>>

\* the brick "Add Transformation Brick" appends
NewBrick(b) ==
  IF Structured(b) THEN brickConfig["Add/Modify Fields"]
  ELSE TextBrick("Add/Modify Fields", "")

AppendBrick ==
  /\ Mounted /\ nEdits < MaxEdits
  /\ Len(processors) < MaxBricks
  /\ processors' = Append(processors, NewBrick(build))
  /\ objects' = Append(objects, StoredObject(build, "Add/Modify Fields"))
  /\ nEdits' = nEdits + 1
  /\ UNCHANGED <<brickConfig, concVars, build, name, nifiProcessGroup, sink, page, formErrors,
                 validationResult, isValidating, isRunning, validateReq, runReq,
                 toast, apiVars>>

\* every card shows the remove button
RemovableAny(ps) == 1..Len(ps)

\* the positions whose card shows the remove button (index > 0)
Removable(ps) == {i \in 1..Len(ps) : i - 1 > 0}

\* the last brick goes, whichever card was clicked
RemoveLast(ps, i) == SubSeq(ps, 1, Len(ps) - 1)

\* remove(index) of useFieldArray
RemoveAt(ps, i) == [j \in 1..(Len(ps) - 1) |-> IF j < i THEN ps[j] ELSE ps[j + 1]]

RemoveBrick(i) ==
  /\ Mounted /\ nEdits < MaxEdits
  /\ i \in Removable(processors)
  /\ processors' = RemoveAt(processors, i)
  /\ objects' = RemoveAt(objects, i)
  /\ nEdits' = nEdits + 1
  /\ UNCHANGED <<brickConfig, concVars, build, name, nifiProcessGroup, sink, page, formErrors,
                 validationResult, isValidating, isRunning, validateReq, runReq,
                 toast, apiVars>>

\* the Cancel button: router.push('/') unmounts the form and its state
Unmount ==
  /\ page' = "home"
  /\ name' = InitialName(build)
  /\ nifiProcessGroup' = "root"
  /\ processors' = InitialProcessors(build)
  /\ objects' = InitialObjects(build)
  /\ sink' = InitialSink
  /\ formErrors' = {}
  /\ validationResult' = NULL
  /\ isValidating' = FALSE
  /\ isRunning' = FALSE
  /\ validateReq' = NULL
  /\ runReq' = NULL
  /\ nEdits' = 0

Cancel ==
  /\ Mounted
  /\ Unmount
  /\ UNCHANGED <<brickConfig, concVars, build, toast, apiVars>>

\* ------------------------------------------------------------------------
\* Validate and submit
\* ------------------------------------------------------------------------
\* form.trigger() of handleValidate: the structured forms run the resolver, the
\* free-text form's handleValidate does not
Trigger(b, n, g, ps, s) ==
  IF Structured(b) THEN FormErrors(b, n, g, ps, s) ELSE {}

\* handleValidate up to the call of validateConfigurationAction
HandleValidate ==
  /\ Mounted /\ ~isValidating
  /\ validationResult' = NULL
  /\ LET errors == Trigger(build, name, nifiProcessGroup, processors, sink)
     IN IF Structured(build) /\ errors # {}
          THEN /\ formErrors' = errors
               /\ toast' = "Please fix the errors in the form before validating."
               /\ UNCHANGED <<isValidating, validateReq>>
          ELSE /\ formErrors' = IF Structured(build) THEN {} ELSE formErrors
               /\ isValidating' = TRUE
               /\ validateReq' = ValidateRequest(build, processors, sink)
               /\ UNCHANGED toast
  /\ UNCHANGED <<heapVars, concVars, build, formVars, page, isRunning, runReq, nEdits, apiVars>>

\* the rest of handleValidate: the action's answer is put on record
ValidateResponse(ai) ==
  /\ Mounted /\ validateReq # NULL
  /\ validationResult' = validateConfigurationAction(validateReq, ai)
  /\ isValidating' = FALSE
  /\ validateReq' = NULL
  /\ UNCHANGED <<heapVars, concVars, build, formVars, page, formErrors, isRunning, runReq, toast, nEdits,
                 apiVars>>

\* the call itself is rejected: catch and finally of handleValidate
ValidateRejected ==
  /\ Mounted /\ validateReq # NULL
  /\ toast' = "Failed to validate configuration."
  /\ isValidating' = FALSE
  /\ validateReq' = NULL
  /\ UNCHANGED <<heapVars, concVars, build, formVars, page, formErrors, validationResult, isRunning, runReq,
                 nEdits, apiVars>>

\* the disabled attribute of the submit button
SubmitDisabled(b, busy, result) ==
  IF b = "run" THEN busy \/ result = NULL \/ ~result.isValid
  ELSE busy \/ (result # NULL /\ ~result.isValid)

\* form.handleSubmit(onSubmit) up to the call of the action: the resolver runs
\* first and onSubmit is called only with values that pass formSchema
Submit ==
  /\ Mounted
  /\ ~SubmitDisabled(build, isRunning, validationResult)
  /\ formErrors' = FormErrors(build, name, nifiProcessGroup, processors, sink)
  /\ IF formSchema(build, name, nifiProcessGroup, processors, sink)
       THEN /\ isRunning' = TRUE
            /\ runReq' = RunRequest(build, name, nifiProcessGroup, processors, sink)
       ELSE UNCHANGED <<isRunning, runReq>>
  /\ UNCHANGED <<heapVars, concVars, build, formVars, page, validationResult, isValidating, validateReq,
                 toast, nEdits, apiVars>>

\* what the action called by onSubmit returns
SubmitAction(b, req, nifi) ==
  IF b = "run" THEN runPipelineAction(req) ELSE createPipelineAction(req, nifi)

\* the rest of onSubmit
SubmitResponse(nifi) ==
  /\ Mounted /\ runReq # NULL
  /\ LET result == SubmitAction(build, runReq, nifi)
     IN IF result.success
          THEN /\ Unmount
               /\ toast' = "Successful"
          ELSE /\ toast' = "Failed"
               /\ isRunning' = FALSE
               /\ runReq' = NULL
               /\ UNCHANGED <<objects, formVars, page, formErrors, validationResult,
                              isValidating, validateReq, nEdits>>
  /\ UNCHANGED <<brickConfig, concVars, build, apiVars>>

\* the call is rejected: onSubmit has no catch, the busy flag stays set
SubmitRejected ==
  /\ Mounted /\ runReq # NULL
  /\ runReq' = NULL
  /\ UNCHANGED <<heapVars, concVars, build, formVars, page, formErrors, validationResult, isValidating,
                 isRunning, validateReq, toast, nEdits, apiVars>>

Next ==
  \/ \E v \in NameValues : EditName(v)
  \/ \E v \in EditValues : EditGroup(v)
  \/ \E i \in 1..MaxBricks, f \in FieldNames, v \in EditValues : EditField(i, f, v)
  \/ \E i \in 1..MaxBricks, v \in EditValues : EditInstructions(i, v)
  \/ \E f \in {"elasticsearchUrl", "index"}, v \in SinkValues : EditSink(f, v)
  \/ \E i \in 1..MaxBricks, type \in BrickKeys : ChangeType(i, type)
  \/ AppendBrick
  \/ \E i \in 1..MaxBricks : RemoveBrick(i)
  \/ HandleValidate
  \/ \E ai \in AiOutputs : ValidateResponse(ai)
  \/ ValidateRejected
  \/ Submit
  \/ \E nifi \in NifiOutcomes : SubmitResponse(nifi)
  \/ SubmitRejected
  \/ Cancel

Spec == Init /\ [][Next]_vars

\* a call of a server action settles: its promise resolves or rejects
ValidateSettles == (\E ai \in AiOutputs : ValidateResponse(ai)) \/ ValidateRejected

SubmitSettles == (\E nifi \in NifiOutcomes : SubmitResponse(nifi)) \/ SubmitRejected

SpecLive == Spec /\ WF_vars(ValidateSettles) /\ WF_vars(SubmitSettles)

\* ------------------------------------------------------------------------
\* Server: validation that also translates, and the simulated deployment
\* ------------------------------------------------------------------------
SeqsUpTo(S, n) == UNION {[1..k -> S] : k \in 0..n}

NifiProcessorTypes == {"GetHTTP", "PutElasticsearchHttp"}
NifiServiceTypes == {"ElasticSearchClientServiceImpl"}

\* what the prompt can put into translatedFlow: JSON with the two keys, text
\* that is not JSON, or nothing (the field is optional)
TranslatedFlows ==
  {JsonStringify([processors |-> u, controllerServices |-> c]) :
     u \in SeqsUpTo(NifiProcessorTypes, MaxUnits), c \in SeqsUpTo(NifiServiceTypes, MaxServices)}
  \cup {NotJson, NULL}

\* what translateFlowToNifiPrompt can do: hand back processors, hand back no
\* output, or throw an error of its own
TranslateOutputs ==
  {[processors |-> u] : u \in SeqsUpTo(NifiProcessorTypes, MaxUnits)}
  \cup {NULL, [thrown |-> "Schema validation failed."]}

\* the trial translation is taken to succeed whatever the prompt did
translateFlowToNifiFlowSucceeds(tr) == TRUE

\* translateFlowToNifiFlow returns (TRUE) or throws (FALSE)
translateFlowToNifiFlow(tr) == "processors" \in DOMAIN tr

\* error.message of what translateFlowToNifiFlow throws
TranslationError(tr) ==
  IF tr = NULL THEN "Failed to get a translated output from the AI model."
  ELSE tr.thrown

\* the feedback of the catch: the fixed text and then error.message
TranslationFailed(message) ==
  "failed to be translated into a concrete NiFi plan. Translation Error: " \o message

\* validateConfigurationFlow in two stages: the logical check, then a trial
\* translation whose output is dropped; applied to an output of the first prompt
validateConfigurationTwoStage(input, ai, tr) ==
  IF ~ai.isValid THEN [isValid |-> FALSE, feedback |-> "ai"]
  ELSE IF translateFlowToNifiFlow(tr) THEN [isValid |-> TRUE, feedback |-> "ai"]
  ELSE [isValid |-> FALSE, feedback |-> TranslationFailed(TranslationError(tr))]

\* validateConfigurationAction over the two-stage flow: a prompt without output
\* makes the flow return nothing, which its output schema refuses
validateTwoStageAction(input, ai, tr) ==
  IF ~ValidateActionInputSchema(input)
    THEN [isValid |-> FALSE, feedback |-> "Invalid input provided for validation."]
  ELSE IF ai.kind # "output"
    THEN [isValid |-> FALSE, feedback |-> "An unexpected error occurred while validating."]
  ELSE validateConfigurationTwoStage(input, ai, tr)

\* validateConfigurationFlow of the validate-and-translate prompt: the output is
\* returned as the prompt gave it
validateAndTranslateFlow(input, ai, tf) ==
  IF ai.kind = "none"
    THEN [isValid |-> FALSE, feedback |-> "The AI validator failed to return a result.",
          translatedFlow |-> NULL]
    ELSE [isValid |-> ai.isValid, feedback |-> "ai", translatedFlow |-> tf]

validateAndTranslateAction(input, ai, tf) ==
  IF ~ValidateActionInputSchema(input)
    THEN [isValid |-> FALSE, feedback |-> "Invalid input provided for validation.",
          translatedFlow |-> NULL]
  ELSE IF ai.kind = "throw"
    THEN [isValid |-> FALSE, feedback |-> "An unexpected error occurred while validating.",
          translatedFlow |-> NULL]
  ELSE validateAndTranslateFlow(input, ai, tf)

\* flow.processors?.length || 0 and flow.controllerServices?.length || 0
NumProcessors(flow) == IF "processors" \in DOMAIN flow THEN Len(flow.processors) ELSE 0
NumServices(flow) ==
  IF "controllerServices" \in DOMAIN flow THEN Len(flow.controllerServices) ELSE 0

\* `pg-` + Math.random().toString(36).substring(7): the id differs from call to call
ProcessGroupIds == {"pg-k3x9a", "pg-q7m2c"}

Plan(success, message, id, units, services) ==
  [success |-> success, message |-> message, id |-> id, units |-> units,
   services |-> services]

\* the simulated flow with a catch that still reports a success
createNifiPipelineLenient(input, configured, random) ==
  IF ~configured
    THEN Plan(FALSE, "NIFI_API_URL is not configured in the environment.", "", 0, 0)
  ELSE IF input.translatedFlow = NULL \/ ~JsonParses(input.translatedFlow)
    THEN Plan(TRUE, "Successfully created placeholder NiFi process group", random, 0, 0)
  ELSE LET flow == JsonParse(input.translatedFlow)
       IN  Plan(TRUE, "Successfully created placeholder NiFi process group", random,
                NumProcessors(flow), NumServices(flow))

\* createNifiPipelineFlow, simulated: the components the message reports
createNifiPipelineSimulated(input, configured, random) ==
  IF ~configured
    THEN Plan(FALSE, "NIFI_API_URL is not configured in the environment.", "", 0, 0)
  ELSE IF input.translatedFlow = NULL \/ ~JsonParses(input.translatedFlow)
    THEN Plan(FALSE, "An error occurred during the simulated NiFi deployment", "", 0, 0)
  ELSE LET flow == JsonParse(input.translatedFlow)
       IN  Plan(TRUE, "Successfully created placeholder NiFi process group", random,
                NumProcessors(flow), NumServices(flow))

\* ------------------------------------------------------------------------
\* Flow preview
\* ------------------------------------------------------------------------
BrickCard(type, isSink) == [type |-> type, isSink |-> isSink]

\* PipelineFlowPreview: one card per processor in list order, then the sink card
PipelineFlowPreview(ps, s) ==
  IF Len(ps) = 0 THEN <<>>
  ELSE [i \in 1..(Len(ps) + 1) |->
          IF i <= Len(ps) THEN BrickCard(ps[i].type, FALSE) ELSE BrickCard(s.type, TRUE)]

\* ------------------------------------------------------------------------
\* The server called on its own: definitions of every shape a caller can send
\* ------------------------------------------------------------------------
ApiTypes == {"HTTP", "File", "Split JSON", "Add/Modify Fields"}

ApiBrick(b, type) ==
  IF Structured(b) THEN defaultValue(CatalogOf(b), type) ELSE TextBrick(type, "x")

\* any type at the first two positions, transformations after them, and the
\* HTTP source with its path emptied
ApiPipelines(b) ==
  UNION {{ps \in [1..n -> {ApiBrick(b, type) : type \in ApiTypes}] :
            \A i \in 3..n : ps[i].type \in {"Split JSON", "Add/Modify Fields"}} :
           n \in 1..MaxBricks}
  \cup {<<[type |-> "HTTP", properties |-> [port |-> "8080", path |-> ""]]>>}

ApiSinks ==
  {[InitialSink EXCEPT !.properties.index = "orders"], [InitialSink EXCEPT !.type = "Kafka"]}

\* every pipeline with the Elasticsearch sink, and the one-brick pipelines with
\* a sink of another type
ApiDefinitions(b) ==
  {[op |-> "pipeline", processors |-> ps, sink |-> s] :
     ps \in ApiPipelines(b), s \in {x \in ApiSinks : x.type = "Elasticsearch"}}
  \cup {[op |-> "pipeline", processors |-> ps, sink |-> s] :
           ps \in {q \in ApiPipelines(b) : Len(q) = 1},
           s \in {x \in ApiSinks : x.type # "Elasticsearch"}}

ApiName == "Orders"

\* requests that are not of the actions' input schemas: a field is missing or
\* null; and one of the schema whose flowDefinition is not JSON
RawRequests ==
  {[sourceType |-> "HTTP", sink |-> InitialSink],
   [flowDefinition |-> NULL, sourceType |-> "HTTP", sink |-> InitialSink],
   [flowDefinition |-> JsonStringify([processors |-> <<>>]), sink |-> InitialSink],
   [flowDefinition |-> JsonStringify([processors |-> <<>>]), sourceType |-> "HTTP",
    sink |-> NULL],
   [name |-> ApiName, nifiProcessGroup |-> [id |-> "root"], flowDefinition |-> NotJson,
    sourceType |-> "HTTP", sink |-> InitialSink]}

InitApi ==
  /\ InitForm
  /\ apiIn \in ApiDefinitions(build) \cup {[op |-> "raw", request |-> r] : r \in RawRequests}
  /\ apiOut = ApiNone
  /\ ConcIdle

ApiValidateRequest ==
  IF apiIn.op = "raw" THEN apiIn.request
  ELSE ValidateRequest(build, apiIn.processors, apiIn.sink)

ApiRunRequest ==
  IF apiIn.op = "raw" THEN apiIn.request
  ELSE RunRequest(build, ApiName, "root", apiIn.processors, apiIn.sink)

Validated(validation) ==
  [apiOut EXCEPT !.form = IF apiIn.op = "raw" THEN NotCalled
                          ELSE formSchema(build, ApiName, "root", apiIn.processors,
                                          apiIn.sink),
                 !.validation = validation]

\* validateConfigurationAction over the one-prompt flow
ApiValidate(ai) ==
  /\ apiOut.validation = NotCalled
  /\ apiOut' = Validated(validateConfigurationAction(ApiValidateRequest, ai))
  /\ UNCHANGED <<heapVars, concVars, build, formVars, uiVars, apiIn>>

\* validateConfigurationAction over the two-stage flow
ApiValidateTwoStage(ai, tr) ==
  /\ apiOut.validation = NotCalled
  /\ apiOut' = Validated(validateTwoStageAction(ApiValidateRequest, ai, tr))
  /\ UNCHANGED <<heapVars, concVars, build, formVars, uiVars, apiIn>>

\* validateConfigurationAction over the validate-and-translate flow
ApiValidateAndTranslate(ai, tf) ==
  /\ apiOut.validation = NotCalled
  /\ apiOut' = Validated(validateAndTranslateAction(ApiValidateRequest, ai, tf))
  /\ UNCHANGED <<heapVars, concVars, build, formVars, uiVars, apiIn>>

\* runPipelineAction or createPipelineAction on the same definition
ApiRun(nifi) ==
  /\ apiOut.validation # NotCalled
  /\ apiOut.result = NotCalled /\ apiOut.plan = NotCalled
  /\ apiOut' = [apiOut EXCEPT !.result = SubmitAction(build, ApiRunRequest, nifi)]
  /\ UNCHANGED <<heapVars, concVars, build, formVars, uiVars, apiIn>>

\* createNifiPipeline on the flow the validation translated
ApiCreate(configured, random) ==
  /\ apiOut.validation # NotCalled
  /\ "translatedFlow" \in DOMAIN apiOut.validation
  /\ apiOut.validation.isValid
  /\ apiOut.result = NotCalled /\ apiOut.plan = NotCalled
  /\ apiOut' = [apiOut EXCEPT !.plan =
                  createNifiPipelineSimulated(
                    [name |-> ApiName, nifiProcessGroup |-> "root",
                     translatedFlow |-> apiOut.validation.translatedFlow], configured,
                    random)]
  /\ UNCHANGED <<heapVars, concVars, build, formVars, uiVars, apiIn>>

\* validateConfigurationAction called once more with the same input
ApiValidateAgain(ai) ==
  /\ apiOut.validation # NotCalled
  /\ "translatedFlow" \notin DOMAIN apiOut.validation
  /\ apiOut.result = NotCalled /\ apiOut.validationAgain = NotCalled
  /\ apiOut' = [apiOut EXCEPT !.validationAgain =
                  validateConfigurationAction(ApiValidateRequest, ai)]
  /\ UNCHANGED <<heapVars, concVars, build, formVars, uiVars, apiIn>>

\* createNifiPipeline called once more on the same translated flow, in the
\* same environment
ApiCreateAgain(random) ==
  /\ apiOut.plan # NotCalled /\ apiOut.plan.success
  /\ apiOut.planAgain = NotCalled
  /\ apiOut' = [apiOut EXCEPT !.planAgain =
                  createNifiPipelineSimulated(
                    [name |-> ApiName, nifiProcessGroup |-> "root",
                     translatedFlow |-> apiOut.validation.translatedFlow], TRUE,
                    random)]
  /\ UNCHANGED <<heapVars, concVars, build, formVars, uiVars, apiIn>>

NextApi ==
  \/ \E ai \in AiOutputs : ApiValidate(ai)
  \/ \E ai \in AiOutputs, tr \in TranslateOutputs : ApiValidateTwoStage(ai, tr)
  \/ \E ai \in AiOutputs, tf \in TranslatedFlows : ApiValidateAndTranslate(ai, tf)
  \/ \E nifi \in NifiOutcomes : ApiRun(nifi)
  \/ \E configured \in BOOLEAN, random \in ProcessGroupIds : ApiCreate(configured, random)
  \/ \E ai \in AiOutputs : ApiValidateAgain(ai)
  \/ \E random \in ProcessGroupIds : ApiCreateAgain(random)

SpecApi == InitApi /\ [][NextApi]_vars

\* ------------------------------------------------------------------------
\* Translated flows in detail: names, controller services and the references
\* between them, as the validate-and-translate prompt is told to write them
\* ------------------------------------------------------------------------
NifiProcessor(type, nm, refs) == [type |-> type, name |-> nm, serviceRefs |-> refs]

NifiService(type, nm, properties) ==
  [type |-> type, name |-> nm, properties |-> properties]

\* NifiProcessorSchema: type and name are any strings, properties any record
DetailedProcessors ==
  {NifiProcessor("ConvertRecord", nm, {ref}) :
     nm \in {"Convert CSV", "Convert CSV 2"},
     ref \in {"json-writer-1", "json-writer-2"}}
  \cup {NifiProcessor("PutElasticsearchHttp", "Send to ES", {"es-client-service-1"})}

DetailedServices ==
  {NifiService("JSONRecordSetWriter", nm, properties) :
     nm \in {"json-writer-1", "json-writer-2"}, properties \in {"{}", "{pretty}"}}
  \cup {NifiService("ElasticSearchClientServiceImpl", "es-client-service-1", "{}")}

DetailedFlows ==
  {JsonStringify([processors |-> u, controllerServices |-> c]) :
     u \in SeqsUpTo(DetailedProcessors, MaxUnits),
     c \in SeqsUpTo(DetailedServices, MaxServices)}

\* definitions with two bricks of the same type
PlanDefinitions(b) ==
  {[op |-> "pipeline",
    processors |-> <<ApiBrick(b, "HTTP"), ApiBrick(b, type), ApiBrick(b, type)>>,
    sink |-> InitialSink] : type \in {"CSV to JSON", "Split JSON"}}

InitPlan ==
  /\ InitForm
  /\ apiIn \in PlanDefinitions(build)
  /\ apiOut = ApiNone
  /\ ConcIdle

NextPlan ==
  \/ \E ai \in AiOutputs, tf \in DetailedFlows : ApiValidateAndTranslate(ai, tf)
  \/ \E configured \in BOOLEAN, random \in ProcessGroupIds : ApiCreate(configured, random)
  \/ \E random \in ProcessGroupIds : ApiCreateAgain(random)

SpecPlan == InitPlan /\ [][NextPlan]_vars

\* the translated flow of a deployment that succeeded
ProducedPlan == JsonParse(apiOut.validation.translatedFlow)

PlanProduced == apiOut.plan # NotCalled /\ apiOut.plan.success

\* ------------------------------------------------------------------------
\* Server actions executed for several callers at once: each call steps through
\* its action and its flow on its own, in any order with the other calls
\* ------------------------------------------------------------------------
Callers == 1..2

\* pipelines of every length: the HTTP source and Split JSON bricks after it
ServerPipelines(b) ==
  {ps \in ApiPipelines(b) :
     ps[1].type = "HTTP" /\ \A i \in 2..Len(ps) : ps[i].type = "Split JSON"}

\* what a caller sends to an action: the request of a pipeline, a request with
\* fields missing, a request whose flowDefinition is not JSON, a request that
\* holds a name and a process group and nothing else
ServerRequests(b) ==
  {RunRequest(b, ApiName, "root", ps, InitialSink) : ps \in ServerPipelines(b)}
  \cup {[sourceType |-> "HTTP", sink |-> InitialSink],
        [name |-> ApiName, flowDefinition |-> NotJson, sourceType |-> "HTTP",
         sink |-> InitialSink],
        [name |-> ApiName, nifiProcessGroup |-> [id |-> "root"]]}

\* what a caller sends to the simulated createNifiPipeline
DeployRequests ==
  {[name |-> ApiName, nifiProcessGroup |-> [id |-> "root"], translatedFlow |-> tf] :
     tf \in {JsonStringify([processors |-> <<"GetHTTP", "PutElasticsearchHttp">>,
                            controllerServices |-> <<"ElasticSearchClientServiceImpl">>]),
             NotJson}}

\* the server functions a caller calls: validateConfigurationAction over the
\* one-prompt flow and over the two-stage flow, runPipelineAction,
\* createPipelineAction with and without its input schema, and the simulated
\* createNifiPipeline
ActionOps == {"validate", "validateTwoStage", "run", "create", "createUnchecked"}

Call(op, input) ==
  [op |-> op, input |-> input, pc |-> "called", i |-> 0, ai |-> NULL, tr |-> NULL,
   nifi |-> "unread", random |-> NULL, invoked |-> FALSE, effects |-> <<>>, result |-> NULL]

ServerCalls(b) ==
  {Call(op, input) : op \in ActionOps, input \in ServerRequests(b)}
  \cup {Call("deploy", input) : input \in DeployRequests}

InitServer ==
  /\ InitForm
  /\ apiIn = ApiIdle /\ apiOut = ApiNone
  /\ handlers = <<>>
  /\ server \in {[calls |-> cs, message |-> [c \in Callers |-> <<>>]] :
                   cs \in [Callers -> ServerCalls(build)]}

\* every call writes the one message variable of the module
MessageCellShared(c) == 1

\* `let message` is declared in the body of the flow: every call has its own
MessageCell(c) == c

Returned(call, result) == [call EXCEPT !.pc = "returned", !.result = result]

\* the input schema of the action, where it has one
ActionInputSchema(op, input) ==
  CASE op \in {"validate", "validateTwoStage"} -> ValidateActionInputSchema(input)
    [] op = "run" -> RunPipelineActionInputSchema(input)
    [] op = "create" -> CreatePipelineActionInputSchema(input)
    [] OTHER -> TRUE

InvalidInput(op) ==
  CASE op \in {"validate", "validateTwoStage"} ->
         [isValid |-> FALSE, feedback |-> "Invalid input provided for validation."]
    [] op = "run" -> Failed("Invalid input provided for pipeline execution.")
    [] OTHER -> Failed("Invalid input provided for pipeline creation.")

\* the action up to the call of its flow: safeParse of the input, and the flow
\* is called when it passes; the action without a schema calls the flow at once
EnterAction(c) ==
  LET call == server.calls[c]
      parsed == ActionInputSchema(call.op, call.input)
  IN  /\ call.pc = "called"
      /\ server' = [server EXCEPT !.calls[c] =
                      IF parsed THEN [call EXCEPT !.pc = "flow", !.invoked = TRUE]
                      ELSE Returned(call, InvalidInput(call.op))]
      /\ UNCHANGED <<build, formVars, uiVars, apiVars, heapVars, handlers>>

\* executePipelineFlow up to its loop: JSON.parse, numSteps, the first lines
FlowBegins(c) ==
  LET call == server.calls[c]
      text == call.input.flowDefinition
  IN  /\ call.op = "run" /\ call.pc = "flow"
      /\ IF ~JsonParses(text) \/ JsonParse(text) = NULL
           THEN server' = [server EXCEPT !.calls[c] =
                            Returned(call,
                              Failed("An error occurred during the simulated pipeline execution"))]
           ELSE server' = [server EXCEPT
                            !.calls[c] = [call EXCEPT !.pc = "loop", !.i = 0],
                            !.message[MessageCell(c)] =
                              <<Step(1, "Ingesting data from source type",
                                     call.input.sourceType)>>]
      /\ UNCHANGED <<build, formVars, uiVars, apiVars, heapVars, handlers>>

\* one turn of the loop: message += the line of flow.processors[i]
LoopStep(c) ==
  LET call == server.calls[c]
      flow == JsonParse(call.input.flowDefinition)
  IN  /\ call.pc = "loop" /\ call.i < NumSteps(flow)
      /\ server' = [server EXCEPT
                      !.calls[c].i = call.i + 1,
                      !.message[MessageCell(c)] =
                        Append(@, Step(call.i + 2, "Applying transformation",
                                       flow.processors[call.i + 1].type))]
      /\ UNCHANGED <<build, formVars, uiVars, apiVars, heapVars, handlers>>

\* after the loop: the line of the sink, and the flow returns its message
FlowReturns(c) ==
  LET call == server.calls[c]
      flow == JsonParse(call.input.flowDefinition)
      lines == Append(server.message[MessageCell(c)],
                      Step(NumSteps(flow) + 2, "Writing data to", call.input.sink.type))
  IN  /\ call.pc = "loop" /\ call.i = NumSteps(flow)
      /\ server' = [server EXCEPT
                      !.message[MessageCell(c)] = lines,
                      !.calls[c] =
                        Returned(call,
                          [success |-> TRUE, message |-> "Successfully simulated execution",
                           steps |-> lines, total |-> NumSteps(flow) + 2])]
      /\ UNCHANGED <<build, formVars, uiVars, apiVars, heapVars, handlers>>

\* validateConfiguration: the prompt answers, gives nothing, or throws into the
\* catch of the action
PromptAnswers(c, ai) ==
  LET call == server.calls[c]
      result == IF ai.kind = "throw"
                  THEN [isValid |-> FALSE,
                        feedback |-> "An unexpected error occurred while validating."]
                  ELSE validateConfigurationFlow(call.input, ai)
  IN  /\ call.op = "validate" /\ call.pc = "flow"
      /\ server' = [server EXCEPT !.calls[c] = Returned([call EXCEPT !.ai = ai], result)]
      /\ UNCHANGED <<build, formVars, uiVars, apiVars, heapVars, handlers>>

\* the first stage of the two-stage flow: await prompt(input). The prompt
\* throws, or gives no output (the flow returns it and its outputSchema throws),
\* both into the catch of the action; an output that is not valid is returned
\* as it is; a valid one takes the flow to the trial translation
LogicalCheck(c, ai) ==
  LET call == [server.calls[c] EXCEPT !.ai = ai]
  IN  /\ call.op = "validateTwoStage" /\ call.pc = "flow"
      /\ server' = [server EXCEPT !.calls[c] =
           IF ai.kind # "output"
             THEN Returned(call,
                    [isValid |-> FALSE,
                     feedback |-> "An unexpected error occurred while validating."])
           ELSE IF ~ai.isValid THEN Returned(call, [isValid |-> FALSE, feedback |-> "ai"])
           ELSE [call EXCEPT !.pc = "translate"]]
      /\ UNCHANGED <<build, formVars, uiVars, apiVars, heapVars, handlers>>

\* the second stage: await translateFlowToNifi(translateInput) in its try
TrialTranslation(c, tr) ==
  LET call == [server.calls[c] EXCEPT !.tr = tr, !.effects = Append(@, "translate")]
  IN  /\ call.pc = "translate"
      /\ server' = [server EXCEPT !.calls[c] =
           Returned(call,
             IF translateFlowToNifiFlow(tr) THEN [isValid |-> TRUE, feedback |-> "ai"]
             ELSE [isValid |-> FALSE,
                   feedback |-> TranslationFailed(TranslationError(tr))])]
      /\ UNCHANGED <<build, formVars, uiVars, apiVars, heapVars, handlers>>

\* the input schema of the first createNifiPipelineFlow: a name and a group
CreateNifiPipelineInputSchema(input) ==
  /\ {"name", "nifiProcessGroup"} \subseteq DOMAIN input
  /\ input.nifiProcessGroup # NULL

\* the flow goes on whatever the environment holds
ConfiguredAlways(nifi) == TRUE

\* if (!nifiApiUrl) return ...: the flow goes on when NIFI_API_URL is set
Configured(nifi) == nifi # "unconfigured"

NotConfigured == Failed("NIFI_API_URL is not configured in the environment.")

\* the environments of a call: of the simulated flow only NIFI_API_URL matters
Environments(op) == IF op = "deploy" THEN {"unconfigured", "ok"} ELSE NifiOutcomes

\* createNifiPipelineFlow is entered: the flow checks its input against its
\* inputSchema and throws when it fails (into the catch of the action), then
\* reads NIFI_API_URL and returns when it is not set
ReadEnvironment(c, nifi) ==
  LET call == [server.calls[c] EXCEPT !.nifi = nifi]
  IN  /\ call.op \in {"create", "createUnchecked", "deploy"} /\ call.pc = "flow"
      /\ nifi \in Environments(call.op)
      /\ server' = [server EXCEPT !.calls[c] =
           IF call.op = "createUnchecked" /\ ~CreateNifiPipelineInputSchema(call.input)
             THEN Returned(server.calls[c],
                    Failed("An unexpected error occurred while creating the pipeline."))
           ELSE IF ~Configured(nifi)
             THEN Returned(call,
                    IF call.op = "deploy"
                      THEN Plan(FALSE, "NIFI_API_URL is not configured in the environment.",
                                "", 0, 0)
                      ELSE NotConfigured)
           ELSE [call EXCEPT !.pc = IF call.op = "deploy" THEN "parse" ELSE "fetch"]]
      /\ UNCHANGED <<build, formVars, uiVars, apiVars, heapVars, handlers>>

\* what the flow returns after its request to the NiFi API: the API answers ok,
\* answers with an error status, or fetch throws (no answer, no usable URL)
AfterFetch(op, nifi) ==
  CASE nifi = "ok" ->
         [success |-> TRUE,
          message |-> IF op = "create"
                        THEN "Successfully created placeholder NiFi process group"
                        ELSE "Successfully created NiFi process group",
          steps |-> <<>>, total |-> 0]
    [] nifi = "http-error" -> Failed("Failed to create NiFi process group.")
    [] OTHER -> Failed("An error occurred while communicating with NiFi")

\* await fetch(url, ...) and the return of the flow
NifiRequest(c) ==
  LET call == server.calls[c]
  IN  /\ call.pc = "fetch"
      /\ server' = [server EXCEPT !.calls[c] =
                      Returned([call EXCEPT !.effects = Append(@, "fetch")],
                               AfterFetch(call.op, call.nifi))]
      /\ UNCHANGED <<build, formVars, uiVars, apiVars, heapVars, handlers>>

\* the simulated flow: JSON.parse(input.translatedFlow), the generated id, the
\* counts; the catch when the text does not parse
ParseTranslatedFlow(c, random) ==
  LET call == server.calls[c]
  IN  /\ call.pc = "parse"
      /\ server' = [server EXCEPT !.calls[c] =
                      Returned([call EXCEPT !.effects = Append(@, "parse"),
                                            !.random = random],
                               createNifiPipelineSimulated(call.input, TRUE, random))]
      /\ UNCHANGED <<build, formVars, uiVars, apiVars, heapVars, handlers>>

NextServer ==
  \/ \E c \in Callers : EnterAction(c)
  \/ \E c \in Callers : FlowBegins(c)
  \/ \E c \in Callers : LoopStep(c)
  \/ \E c \in Callers : FlowReturns(c)
  \/ \E c \in Callers, ai \in AiOutputs : PromptAnswers(c, ai)
  \/ \E c \in Callers, ai \in AiOutputs : LogicalCheck(c, ai)
  \/ \E c \in Callers, tr \in TranslateOutputs : TrialTranslation(c, tr)
  \/ \E c \in Callers, nifi \in NifiOutcomes : ReadEnvironment(c, nifi)
  \/ \E c \in Callers : NifiRequest(c)
  \/ \E c \in Callers, random \in ProcessGroupIds : ParseTranslatedFlow(c, random)

SpecServer == InitServer /\ [][NextServer]_vars

\* createPipelineAction without an input schema, over the first flow
createPipelineActionUnchecked(input, nifi) ==
  IF ~CreateNifiPipelineInputSchema(input)
    THEN Failed("An unexpected error occurred while creating the pipeline.")
  ELSE IF nifi = "unconfigured" THEN NotConfigured
  ELSE AfterFetch("createUnchecked", nifi)

\* what the call returns when no other call is made
Alone(call) ==
  CASE call.op = "run" -> runPipelineAction(call.input)
    [] call.op = "validate" -> validateConfigurationAction(call.input, call.ai)
    [] call.op = "validateTwoStage" ->
         IF call.ai = NULL
           THEN [isValid |-> FALSE, feedback |-> "Invalid input provided for validation."]
           ELSE validateTwoStageAction(call.input, call.ai, call.tr)
    [] call.op = "create" -> createPipelineAction(call.input, call.nifi)
    [] call.op = "createUnchecked" -> createPipelineActionUnchecked(call.input, call.nifi)
    [] call.op = "deploy" ->
         createNifiPipelineSimulated(call.input, call.nifi # "unconfigured", call.random)

\* ------------------------------------------------------------------------
\* The field array under its four operations, from every pipeline the form
\* can hold
\* ------------------------------------------------------------------------
\* the types the user picks in the Brick Type selects
PickedTypes == {"HTTP", "File", "Split JSON", "Add/Modify Fields"}

\* the pipelines the structured form holds after appends and changes of type:
\* a source first, transformations after it, each brick the default of its type
BuiltPipelines(b) ==
  UNION {{ps \in [1..n -> {defaultValue(CatalogOf(b), type) : type \in PickedTypes}] :
            /\ ps[1].type \in SourceTypes
            /\ \A i \in 2..n : ps[i].type \in TransformationTypes} :
           n \in 1..MaxBricks}

InitBuilt ==
  /\ build \in {b \in Builds : Structured(b)}
  /\ page = "form"
  /\ name = InitialName(build)
  /\ nifiProcessGroup = "root"
  /\ processors \in BuiltPipelines(build)
  /\ objects = [j \in 1..Len(processors) |-> StoredObject(build, processors[j].type)]
  /\ brickConfig = InitialBrickConfig(build)
  /\ sink = InitialSink
  /\ formErrors = {}
  /\ validationResult = NULL
  /\ isValidating = FALSE
  /\ isRunning = FALSE
  /\ validateReq = NULL
  /\ runReq = NULL
  /\ toast = "none"
  /\ nEdits = 0
  /\ apiIn = ApiIdle /\ apiOut = ApiNone
  /\ ConcIdle

NextBuilt ==
  \/ \E i \in 1..MaxBricks : RemoveBrick(i)
  \/ \E i \in 1..MaxBricks, type \in PickedTypes : ChangeType(i, type)
  \/ \E i \in 1..MaxBricks, f \in FieldNames, v \in EditValues : EditField(i, f, v)
  \/ AppendBrick

SpecBuilt == InitBuilt /\ [][NextBuilt]_vars

\* ------------------------------------------------------------------------
\* handleValidate step by step: an invocation is suspended at each await, and
\* the form goes on taking clicks and edits in between
\* ------------------------------------------------------------------------
\* an invocation awaiting form.trigger()
AtTrigger == [pc |-> "trigger"]

\* an invocation awaiting validateConfigurationAction
AtCall(req) == [pc |-> "call", req |-> req]

\* the disabled attribute of the Validate button
ValidateDisabled == isValidating

\* a click on Validate: handleValidate runs to its first await. The structured
\* forms clear the result and await form.trigger(); the free-text form sets
\* the flag, clears the result and awaits the action
ClickValidate ==
  /\ Mounted /\ ~ValidateDisabled
  /\ Len(handlers) < MaxHandlers
  /\ validationResult' = NULL
  /\ IF Structured(build)
       THEN /\ handlers' = Append(handlers, AtTrigger)
            /\ UNCHANGED isValidating
       ELSE /\ handlers' = Append(handlers, AtCall(ValidateRequest(build, processors, sink)))
            /\ isValidating' = TRUE
  /\ UNCHANGED <<heapVars, server, build, formVars, page, formErrors, isRunning, validateReq,
                 runReq, toast, nEdits, apiVars>>

\* form.trigger() resolves: on errors the toast and return; otherwise
\* form.getValues(), setIsValidating(true) and the call of the action
TriggerResolves(h) ==
  /\ Mounted /\ h \in 1..Len(handlers) /\ handlers[h].pc = "trigger"
  /\ LET errors == Trigger(build, name, nifiProcessGroup, processors, sink)
     IN IF errors # {}
          THEN /\ formErrors' = errors
               /\ toast' = "Please fix the errors in the form before validating."
               /\ handlers' = RemoveAt(handlers, h)
               /\ UNCHANGED isValidating
          ELSE /\ formErrors' = {}
               /\ isValidating' = TRUE
               /\ handlers' = [handlers EXCEPT
                                ![h] = AtCall(ValidateRequest(build, processors, sink))]
               /\ UNCHANGED toast
  /\ UNCHANGED <<heapVars, server, build, formVars, page, validationResult, isRunning,
                 validateReq, runReq, nEdits, apiVars>>

\* the action resolves: setValidationResult(result), then the finally block
CallResolves(h, ai) ==
  /\ Mounted /\ h \in 1..Len(handlers) /\ handlers[h].pc = "call"
  /\ validationResult' = validateConfigurationAction(handlers[h].req, ai)
  /\ isValidating' = FALSE
  /\ handlers' = RemoveAt(handlers, h)
  /\ UNCHANGED <<heapVars, server, build, formVars, page, formErrors, isRunning, validateReq,
                 runReq, toast, nEdits, apiVars>>

\* the action rejects: the catch block, then the finally block
CallRejects(h) ==
  /\ Mounted /\ h \in 1..Len(handlers) /\ handlers[h].pc = "call"
  /\ toast' = "Failed to validate configuration."
  /\ isValidating' = FALSE
  /\ handlers' = RemoveAt(handlers, h)
  /\ UNCHANGED <<heapVars, server, build, formVars, page, formErrors, validationResult,
                 isRunning, validateReq, runReq, nEdits, apiVars>>

NextAsync ==
  \/ ClickValidate
  \/ \E h \in 1..MaxHandlers : TriggerResolves(h)
  \/ \E h \in 1..MaxHandlers, ai \in AiOutputs : CallResolves(h, ai)
  \/ \E h \in 1..MaxHandlers : CallRejects(h)
  \/ \E i \in 1..MaxBricks, f \in FieldNames, v \in EditValues : EditField(i, f, v)
  \/ AppendBrick

SpecAsync == Init /\ [][NextAsync]_vars

\* the requests of validateConfigurationAction that have not been answered
InFlight == {h \in 1..Len(handlers) : handlers[h].pc = "call"}

\* ------------------------------------------------------------------------
\* Properties
\* ------------------------------------------------------------------------
\* a request reaches runPipelineAction / createPipelineAction in this step
ActionReached == runReq = NULL /\ runReq' # NULL

\* C1: the form's submit reaches runPipelineAction or createPipelineAction only
\* while a validation result with isValid = true is on record.
C1_SubmitOnlyWhenValid ==
  [][ActionReached => (validationResult # NULL /\ validationResult.isValid)]_vars

\* C2: every brick that holds its type's catalog default passes the schema of
\* its own type.
C2_DefaultsPassOwnSchema ==
  Structured(build) =>
    \A i \in 1..Len(processors) :
      processors[i] = defaultValue(CatalogOf(build), processors[i].type)
        => processorUnionSchema(CatalogOf(build), processors[i])

\* C3: in every state of the form the processors list is not empty, its first
\* element is of a source type, every later element is of a transformation
\* type, and the sink is present.
C3_OneSourceOneSink ==
  /\ Len(processors) >= 1
  /\ processors[1].type \in SourceTypes
  /\ \A i \in 2..Len(processors) : processors[i].type \in TransformationTypes
  /\ sink # NULL /\ sink.type = "Elasticsearch"

C3_Witness ==
  /\ Len(processors) = 2
  /\ processors[1].type = "File"
  /\ processors[2].type = "Merge Records"
  /\ nEdits = 3

\* C4: validation rejects every definition whose source slot holds a type that
\* is not a source type, or whose transformation slot holds a type that is not
\* a transformation type, or whose sink is not the Elasticsearch sink.
C4_CategoryMismatchRejected ==
  (apiIn.op = "pipeline" /\ apiOut.validation # NotCalled)
    => LET ps == apiIn.processors
           mismatch == \/ ps[1].type \notin SourceTypes
                       \/ \E i \in 2..Len(ps) : ps[i].type \notin TransformationTypes
                       \/ apiIn.sink.type # "Elasticsearch"
       IN  mismatch => ~apiOut.validation.isValid

\* C5: validation rejects a definition whose source is File and whose first
\* transformation is Split JSON.
C5_FileSplitJsonRejected ==
  (apiIn.op = "pipeline" /\ apiOut.validation # NotCalled)
    => LET ps == apiIn.processors
       IN  (Len(ps) >= 2 /\ ps[1].type = "File" /\ ps[2].type = "Split JSON")
             => ~apiOut.validation.isValid

\* C6: validating a form whose HTTP source has an empty path reports an error
\* on the field path of that brick, sends no request and puts no result on
\* record; in general a brick field that fails its schema is reported at its
\* position and the definition gets no validation result.
C6_EmptyPathRejected ==
  [][(HandleValidate /\ Structured(build)) =>
       /\ (processors[1].type = "HTTP" /\ processors[1].properties.path = "")
            => /\ Err("processors", 0, "path") \in formErrors'
               /\ validateReq' = NULL
               /\ validationResult' = NULL
               /\ ~isValidating'
       /\ \A i \in 1..Len(processors) :
            \A f \in BrickFieldErrors(CatalogOf(build), processors[i]) :
              /\ Err("processors", i - 1, f) \in formErrors'
              /\ validateReq' = NULL
              /\ validationResult' = NULL]_vars

C6_Witness ==
  /\ Structured(build)
  /\ processors[1].type = "HTTP" /\ processors[1].properties.path = ""
  /\ Err("processors", 0, "path") \in formErrors
  /\ toast = "Please fix the errors in the form before validating."
  /\ validationResult = NULL /\ validateReq = NULL

\* C7: after the type of the brick at a position is changed to T, that brick
\* has type T and the catalog default properties of T.
C7_ChangeTypeResetsProperties ==
  [][\A i \in 1..MaxBricks, type \in BrickKeys :
       ChangeType(i, type) =>
         /\ processors'[i].type = type
         /\ processors'[i].properties = defaultProperties(CatalogOf(build), type)]_vars

\* C8: for every definition that validation accepts, running or deploying the
\* same definition succeeds and reports at least as many units as the
\* definition has bricks (processors and sink).
C8_AcceptedCompiles ==
  (apiIn.op = "pipeline" /\ apiOut.validation # NotCalled /\ apiOut.validation.isValid)
    => LET bricks == Len(apiIn.processors) + 1
       IN  /\ apiOut.result # NotCalled
                => (apiOut.result.success /\ apiOut.result.total >= bricks)
           /\ apiOut.plan # NotCalled
                => (apiOut.plan.success /\ apiOut.plan.units >= bricks)

C10_EndToEnd ==
  (/\ apiIn.op = "pipeline" /\ Structured(build)
   /\ apiIn.processors = <<defaultValue(CatalogOf(build), "HTTP")>>
   /\ apiIn.sink = [InitialSink EXCEPT !.properties.index = "orders"]
   /\ apiOut.validation # NotCalled)
    => /\ apiOut.validation.isValid
       /\ apiOut.result # NotCalled => (apiOut.result.success /\ apiOut.result.total = 2)
       /\ apiOut.plan # NotCalled
            => (apiOut.plan.success /\ apiOut.plan.units = 2 /\ apiOut.plan.services = 1)

\* C11: the request the form builds for validation and for run/deploy names
\* the source once: sourceType is the first brick's type, the processors of
\* flowDefinition (which the server reads as the transformations) are exactly
\* the form's transformations in order, and the source's properties are in
\* the request.
C11_CanonicalRequest ==
  [][LET canonical(req) ==
           LET flow == JsonParse(req.flowDefinition).processors
           IN  /\ req.sourceType = processors[1].type
               /\ flow = Tail(processors)
               /\ \/ "source" \in DOMAIN req /\ req.source = processors[1]
                  \/ \E i \in 1..Len(flow) : flow[i] = processors[1]
               /\ req.sink = sink
     IN  /\ (validateReq = NULL /\ validateReq' # NULL) => canonical(validateReq')
         /\ ActionReached => canonical(runReq')]_vars

\* C12: validateConfigurationAction always returns a result with a boolean
\* isValid and a feedback, whatever its input and whatever the flow behind it
\* does, and isValid is false when the input is not of the schema, when the
\* prompt gives no output or throws, and when the trial translation fails.
C12_ValidateNeverRaises ==
  [][(apiOut.validation = NotCalled /\ apiOut'.validation # NotCalled) =>
       LET v == apiOut'.validation
           malformed == ~ValidateActionInputSchema(ApiValidateRequest)
       IN  /\ {"isValid", "feedback"} \subseteq DOMAIN v
           /\ v.isValid \in BOOLEAN
           /\ malformed => ~v.isValid
           /\ \A ai \in {a \in AiOutputs : a.kind # "output"} :
                /\ v = validateConfigurationAction(ApiValidateRequest, ai) => ~v.isValid
                /\ \A tr \in TranslateOutputs :
                     v = validateTwoStageAction(ApiValidateRequest, ai, tr) => ~v.isValid
                /\ \A tf \in TranslatedFlows :
                     v = validateAndTranslateAction(ApiValidateRequest, ai, tf)
                       => ~v.isValid
           /\ \A ai \in AiOutputs :
                v = validateTwoStageAction(ApiValidateRequest, ai, NULL) => ~v.isValid]_vars

C12_Witness ==
  /\ apiIn.op = "pipeline"
  /\ apiOut.validation # NotCalled
  /\ ~apiOut.validation.isValid
  /\ apiOut.validation.feedback = "An unexpected error occurred while validating."

\* C13: every validate call runs all the checks: the field schemas of every
\* brick, whose errors are all reported, and the check of the flow (categories,
\* format chain), which is made by the validation flow on the server.
C13_AllChecksRun ==
  [][(HandleValidate /\ Structured(build)) =>
       /\ \A i \in 1..Len(processors) :
            \A f \in BrickFieldErrors(CatalogOf(build), processors[i]) :
              Err("processors", i - 1, f) \in formErrors'
       /\ validateReq' # NULL]_vars

C15_Deterministic ==
  /\ apiOut.validationAgain # NotCalled => apiOut.validationAgain = apiOut.validation
  /\ apiOut.planAgain # NotCalled => apiOut.planAgain = apiOut.plan

\* C16: a produced plan holds one service per service type and configuration:
\* no two of its services have the same type and the same properties.
C16_ServicesDeduplicated ==
  PlanProduced =>
    LET services == ProducedPlan.controllerServices
    IN  \A i, j \in 1..Len(services) :
          (services[i].type = services[j].type
           /\ services[i].properties = services[j].properties) => i = j

\* C17: every service a unit of a produced plan refers to is a service of
\* that plan.
C17_ReferencesResolved ==
  PlanProduced =>
    LET plan == ProducedPlan
        ids == {plan.controllerServices[k].name : k \in 1..Len(plan.controllerServices)}
    IN  \A i \in 1..Len(plan.processors) : plan.processors[i].serviceRefs \subseteq ids

\* C18: no two units of a produced plan have the same name.
C18_UnitNamesUnique ==
  PlanProduced =>
    LET units == ProducedPlan.processors
    IN  \A i, j \in 1..Len(units) : units[i].name = units[j].name => i = j

\* C19: the catalog is consistent: registered names are unique; every name
\* of a category (the source list, the transformation list, the type of the
\* sink) resolves through getBrickConfig to a registered descriptor; the
\* categories are pairwise disjoint and together are exactly the registered
\* names; the lookup of a name that is not registered returns undefined.
C19_CatalogConsistent ==
  LET SinkTypes == {sink.type}
      Listed == SourceTypes \cup TransformationTypes \cup SinkTypes
  IN  /\ \A i, j \in 1..Len(brickTypes) : brickTypes[i] = brickTypes[j] => i = j
      /\ \A type \in Listed :
            getBrickConfig(type) # NULL /\ "key" \in DOMAIN getBrickConfig(type)
      /\ SourceTypes \cap TransformationTypes = {}
      /\ SourceTypes \cap SinkTypes = {}
      /\ TransformationTypes \cap SinkTypes = {}
      /\ Listed = BrickKeys
      /\ \A type \in {"", "Unknown", "constructor", "toString"} \ BrickKeys :
            getBrickConfig(type) = NULL

C21_CallsIsolated ==
  \A c \in Callers :
    server.calls[c].pc = "returned" => server.calls[c].result = Alone(server.calls[c])

\* a run has returned its lines while the run of another pipeline is in the
\* middle of its loop
C21_Witness ==
  /\ server.calls[1].op = "run" /\ server.calls[1].pc = "returned"
  /\ server.calls[1].result.success /\ Len(server.calls[1].result.steps) >= 3
  /\ server.calls[2].op = "run" /\ server.calls[2].pc = "loop" /\ server.calls[2].i >= 1
  /\ server.calls[2].input # server.calls[1].input

\* C22: a validation result on record is never stale: a step that changes the
\* processors or the sink leaves no result on record, and a result is put on
\* record only when it answers the request of the form as it is now.
C22_ResultNeverStale ==
  [][/\ (processors' # processors \/ sink' # sink) => validationResult' = NULL
     /\ (validationResult' # NULL /\ validationResult' # validationResult)
          => validateReq = ValidateRequest(build, processors, sink)]_vars

\* C23: the busy flags always clear: whenever isValidating is set it is clear
\* again later, and whenever isRunning (isDeploying) is set it is clear again
\* later, however the call of the server action ends.
C23_BusyFlagsClear ==
  /\ (isValidating ~> ~isValidating)
  /\ (isRunning ~> ~isRunning)

\* C24: at most one validation request is in flight, and the Validate button
\* is disabled from the click to the response: while an invocation of
\* handleValidate has not finished, isValidating is set.
C24_OneValidationInFlight ==
  /\ Cardinality(InFlight) <= 1
  /\ handlers # <<>> => ValidateDisabled

\* ------------------------------------------------------------------------
\* C25: runPipelineAction and createPipelineAction never act on malformed
\* input and never rethrow: a call whose input does not match the schema of
\* the action returns success = false and the flow (executePipeline,
\* createNifiPipeline) was not invoked; every call that returns, returns a
\* result with a success field, a failure with a message.
ActionSchema(op, input) ==
  IF op = "run" THEN RunPipelineActionInputSchema(input)
  ELSE CreatePipelineActionInputSchema(input)

C25_MalformedInputRejected ==
  \A c \in Callers :
    LET call == server.calls[c]
    IN  (call.op \in {"run", "create", "createUnchecked"} /\ call.pc = "returned")
          => /\ ~ActionSchema(call.op, call.input)
                  => (~call.result.success /\ ~call.invoked)
             /\ ~call.result.success => call.result.message # ""

\* ------------------------------------------------------------------------
\* C26: the validation that also translates answers valid only when both
\* stages succeeded: the logical check gave isValid = true and the trial
\* translation returned. When the logical check is not valid the translation
\* is not attempted; when the translation throws, the answer is not valid and
\* its feedback carries the message of the error thrown.
C26_BothStagesOrInvalid ==
  \A c \in Callers :
    LET call == server.calls[c]
        attempted == call.effects = <<"translate">>
        threw == attempted /\ "processors" \notin DOMAIN call.tr
        thrown == IF call.tr = NULL
                    THEN "Failed to get a translated output from the AI model."
                    ELSE call.tr.thrown
    IN  call.op = "validateTwoStage"
          => /\ call.pc = "translate" => (call.ai.kind = "output" /\ call.ai.isValid)
             /\ call.pc = "returned"
                  => /\ call.result.isValid
                          => (call.ai # NULL /\ call.ai.kind = "output" /\ call.ai.isValid
                              /\ attempted /\ ~threw)
                     /\ (call.ai = NULL \/ call.ai.kind # "output" \/ ~call.ai.isValid)
                          => ~attempted
                     /\ threw => /\ ~call.result.isValid
                                 /\ call.result.feedback
                                      = "failed to be translated into a concrete NiFi plan. Translation Error: "
                                          \o thrown

\* one call answered valid after a translation that returned, the other was
\* answered not valid with the message of the error its translation threw
C26_Witness ==
  /\ server.calls[1].op = "validateTwoStage" /\ server.calls[1].pc = "returned"
  /\ server.calls[1].result.isValid /\ server.calls[1].effects = <<"translate">>
  /\ server.calls[2].op = "validateTwoStage" /\ server.calls[2].pc = "returned"
  /\ server.calls[2].tr = [thrown |-> "Schema validation failed."]
  /\ server.calls[2].result
       = [isValid |-> FALSE,
          feedback |-> "failed to be translated into a concrete NiFi plan. Translation Error: Schema validation failed."]

\* ------------------------------------------------------------------------
\* C27: createNifiPipeline refuses to act without configuration, in every
\* variant: when NIFI_API_URL is not set the flow returns success = false with
\* the not-configured message and has done nothing else (no parse of the flow,
\* no request to the NiFi API); success = true is returned only after the
\* flow definition was parsed or the API answered OK.
C27_RefusesUnconfigured ==
  \A c \in Callers :
    LET call == server.calls[c]
    IN  call.op \in {"create", "createUnchecked", "deploy"}
          => /\ call.pc \in {"fetch", "parse"} => call.nifi # "unconfigured"
             /\ (call.pc = "returned" /\ call.nifi = "unconfigured")
                  => /\ ~call.result.success
                     /\ call.result.message
                          = "NIFI_API_URL is not configured in the environment."
                     /\ call.effects = <<>>
             /\ (call.pc = "returned" /\ call.result.success)
                  => \/ call.effects = <<"parse">> /\ JsonParses(call.input.translatedFlow)
                     \/ call.effects = <<"fetch">> /\ call.nifi = "ok"

\* one call was refused for want of NIFI_API_URL, the other succeeded after
\* the API answered OK
C27_Witness ==
  /\ server.calls[1].op = "deploy" /\ server.calls[1].pc = "returned"
  /\ server.calls[1].nifi = "unconfigured" /\ server.calls[1].effects = <<>>
  /\ ~server.calls[1].result.success
  /\ server.calls[2].op = "create" /\ server.calls[2].pc = "returned"
  /\ server.calls[2].result.success /\ server.calls[2].effects = <<"fetch">>

\* ------------------------------------------------------------------------
\* C28: executePipeline is total and counts its steps consistently: every
\* call returns a result; a flowDefinition that does not parse gives success =
\* false; one that parses to n processors gives success = true and n + 2 step
\* lines numbered 1..n+2 without gap or repetition; and the total it reports
\* is the number of bricks of the pipeline built in the form: one source,
\* the transformations, one sink.
C28_StepsCountBricks ==
  (build = "run" /\ apiOut.result # NotCalled)
    => LET result == apiOut.result
           req == ApiRunRequest
       IN  /\ "success" \in DOMAIN result
           /\ ("flowDefinition" \in DOMAIN req /\ req.flowDefinition # NULL
               /\ ~JsonParses(req.flowDefinition)) => ~result.success
           /\ apiIn.op = "pipeline"
                => /\ result.success
                   /\ Len(result.steps) = result.total
                   /\ \A k \in 1..Len(result.steps) : result.steps[k].n = k
                   /\ result.total = Len(apiIn.processors) + 1

====
